---- MODULE Spec2Model ----
(***************************************************************************)
(* Model of src/src/services/socketManager.ts: the socket.io chat relay.   *)
(*                                                                         *)
(* The durable store (prisma.chatSession, prisma.chatMessage), the         *)
(* sockets (socket.data, rooms, the events emitted to each client) and the *)
(* async handlers in flight are the state.  Node runs one handler segment  *)
(* at a time and a handler is suspended exactly at its awaits, so every    *)
(* action below is one segment: the awaited repository or oracle call      *)
(* taking effect, followed by the synchronous code up to the next await.   *)
(***************************************************************************)
EXTENDS Integers, Sequences, FiniteSets, TLC

(* ------------------------------ bounds -------------------------------- *)
\* connections that may be opened
MaxConns == 2
\* inbound events (message, heartbeat, endSession, end_chat) over all connections
MaxEvents == 2
\* handlers (handleConnection or an event handler) suspended at an await at once
MaxInFlight == 2
\* repository or oracle calls that fail in one run
MaxFaults == 1

Conns == 1..MaxConns
Events == 1..MaxEvents

(* ----------------------------- constants ------------------------------ *)
\* getHistory(sessionId, limit = 100)
HistoryLimit == 100
\* getHistory(sessionId, 50) for the oracle
BrainLimit == 50

\* `undefined` for a session id (socket.data.sessionId, payload.sessionId)
NoSid == 0
\* a session id that names no row of chatSession
BogusSid == 0 - 1
\* handshake without a visitorId
NoVisitor == << "none", 0 >>
\* payload.content absent
NoContent == << "undefined" >>

Visitors == { << "visitor", 1 >> }
\* uuid() of line 86: a fresh identity per connection
Anon(c) == << "anon", c >>
SessionIds == 1..(MaxConns + 1)

VARIABLES
  sessions,   \* chatSession rows: id -> [status, visitor]; status "NONE" = no row
  msgs,       \* chatMessage rows in created_at order
  conns,      \* per socket: handleConnection's position and locals, socket.data, rooms
  outbox,     \* per socket: the events emitted to the client, in order
  tasks,      \* per inbound event: the handler invocation, its position and locals
  faults      \* the repository and oracle calls that have failed so far

vars == << sessions, msgs, conns, outbox, tasks, faults >>

\* a repository or oracle call throws
Throws == faults < MaxFaults /\ faults' = faults + 1

(* ------------------------------ helpers ------------------------------- *)
Exists(s) == s \in SessionIds /\ sessions[s].status # "NONE"

IsSpace(ch) == ch = " "

\* String.prototype.trim on a content given as a sequence of characters
RECURSIVE TrimLeft(_)
TrimLeft(s) == IF s # << >> /\ IsSpace(Head(s)) THEN TrimLeft(Tail(s)) ELSE s
RECURSIVE TrimRight(_)
TrimRight(s) ==
  IF s # << >> /\ IsSpace(s[Len(s)]) THEN TrimRight(SubSeq(s, 1, Len(s) - 1)) ELSE s
Trim(s) == TrimRight(TrimLeft(s))

\* payload.content?.trim()
TrimmedContent(content) == IF content = NoContent THEN << >> ELSE Trim(content)

\* payload.sessionId ?? socket.data.sessionId
EffectiveSid(c, p) == IF p # NoSid THEN p ELSE conns[c].sid

\* where: { session_id: sessionId }
SelectSession(s, sid) == LET OfSession(m) == m.sid = sid IN SelectSeq(s, OfSession)

Take(s, n) == SubSeq(s, 1, IF Len(s) < n THEN Len(s) ELSE n)

\* mapMessage: the DTO keeps id, sender, content, createdAt (the position in msgs)
mapMessage(m) == [id |-> m.id, sender |-> m.role, content |-> m.content]

\* messages.map(mapMessage)
MapMessages(s) == [i \in 1..Len(s) |-> mapMessage(s[i])]

\* findMany where session_id, orderBy created_at asc, take limit
getHistory(sid, limit) == MapMessages(Take(SelectSession(msgs, sid), limit))

\* prisma.chatMessage.create: the row appended, ids in creation order
NewMessage(sid, role, content, turn) ==
  [id |-> Len(msgs) + 1, sid |-> sid, role |-> role, content |-> content, turn |-> turn]

Event(type, sid, by, info) == [type |-> type, sid |-> sid, by |-> by, info |-> info]

\* socket.emit: queued for the client while the socket is connected
EmitTo(ob, c, ev) ==
  IF conns[c].connected THEN [ob EXCEPT ![c] = Append(@, ev)] ELSE ob

\* the sockets io.to(room) reaches
RoomMembers(room) == { c \in Conns : conns[c].connected /\ room \in conns[c].rooms }

\* io.to(sessionId).emit
Fanout(ob, room, ev) ==
  [c \in Conns |-> IF c \in RoomMembers(room) THEN Append(ob[c], ev) ELSE ob[c]]

\* findFirst where visitor_id, status not CLOSED, orderBy created_at desc
OpenSessionsOf(v) ==
  { s \in SessionIds : sessions[s].status \notin {"NONE", "CLOSED"} /\ sessions[s].visitor = v }
\* orderBy created_at asc in place of desc
Earliest(S) == CHOOSE s \in S : \A t \in S : s <= t
\* orderBy: { created_at: 'desc' }, the first row
Latest(S) == CHOOSE s \in S : \A t \in S : t <= s

\* the id prisma.chatSession.create gives the new row
FreshId == CHOOSE s \in SessionIds : ~Exists(s) /\ \A t \in SessionIds : t < s => Exists(t)

DoneTask(t, res) ==
  [t EXCEPT !.pc = "done", !.res = res, !.content = << >>, !.hist = << >>, !.afterEnd = FALSE]
NoTask ==
  [conn |-> 0, kind |-> "none", pc |-> "none", sid |-> NoSid, content |-> << >>,
   res |-> "", hist |-> << >>, afterEnd |-> FALSE]
FreeEvent == CHOOSE k \in Events : tasks[k].pc = "none" /\ \A j \in Events : j < k => tasks[j].pc # "none"
Attaching == { c \in Conns : conns[c].pc \notin {"idle", "done", "failed"} }
Running == { k \in Events : tasks[k].pc \notin {"none", "done"} }
InFlight == Cardinality(Attaching) + Cardinality(Running)
CanReceive(c) ==
  /\ InFlight < MaxInFlight
  /\ conns[c].registered
  /\ conns[c].connected
  /\ \E k \in Events : tasks[k].pc = "none"

\* the store before any session, and the process with no socket yet
EmptyStore == [s \in SessionIds |-> [status |-> "NONE", visitor |-> NoVisitor]]
NoSockets ==
  /\ conns = [c \in Conns |->
               [pc |-> "idle", visitor |-> NoVisitor, requested |-> NoSid, sid |-> NoSid,
                session |-> NoSid, rooms |-> {}, registered |-> FALSE,
                connected |-> FALSE, reqEnded |-> FALSE]]
  /\ outbox = [c \in Conns |-> << >>]
  /\ tasks = [k \in Events |-> NoTask]
  /\ faults = 0

Init ==
  /\ sessions = EmptyStore
  /\ msgs = << >>
  /\ NoSockets

(* -------------------- handleConnection / ensureSession ----------------- *)
\* an end-session event naming s has run to its end without an error
EndedOk(s) ==
  \E k \in Events : tasks[k].kind = "end" /\ tasks[k].pc = "done"
                    /\ tasks[k].res = "ok" /\ tasks[k].sid = s

\* lines 83-96: the handshake is read and ensureSession issues its first query;
\* connections are numbered in the order they arrive
Connect(c, v, r) ==
  /\ conns[c].pc = "idle"
  /\ \A d \in Conns : d < c => conns[d].pc # "idle"
  /\ InFlight < MaxInFlight
  /\ conns' = [conns EXCEPT ![c] =
       [@ EXCEPT !.visitor = IF v = NoVisitor THEN Anon(c) ELSE v,
                 !.requested = r,
                 !.connected = TRUE,
                 !.reqEnded = (r # NoSid /\ EndedOk(r)),
                 !.pc = IF r # NoSid THEN "findRequested" ELSE "findExisting"]]
  /\ UNCHANGED << sessions, msgs, outbox, tasks, faults >>

\* lines 128-137: the catch of handleConnection
AttachFail(c) ==
  /\ Throws
  /\ outbox' = EmitTo(outbox, c, Event("error", NoSid, 0, "attach"))
  /\ conns' = [conns EXCEPT ![c] =
       [@ EXCEPT !.pc = "failed", !.connected = FALSE, !.rooms = {}, !.session = NoSid,
                 !.requested = NoSid, !.reqEnded = FALSE]]
  /\ UNCHANGED << sessions, msgs, tasks >>

\* lines 98-116: bind, join, register the handlers, emit `session`, issue getHistory
Bind(c, s) ==
  /\ conns' = [conns EXCEPT ![c] =
       [@ EXCEPT !.sid = s, !.session = s, !.rooms = @ \cup {s},
                 !.registered = TRUE, !.pc = "loadHistory",
                 !.requested = NoSid, !.reqEnded = FALSE]]
  /\ outbox' = EmitTo(outbox, c, Event("session", s, 0, conns[c].visitor))
  /\ UNCHANGED << msgs, tasks, faults >>

\* line 322: the requested session is reused
Reusable(s) == Exists(s) /\ sessions[s].status # "CLOSED"

\* lines 316-328: findUnique of the requested session
AttachFindRequested(c) ==
  /\ conns[c].pc = "findRequested"
  /\ \/ /\ Reusable(conns[c].requested)
        /\ Bind(c, conns[c].requested)
        /\ UNCHANGED sessions
     \/ /\ ~Reusable(conns[c].requested)
        /\ conns' = [conns EXCEPT ![c].pc = "findExisting"]
        /\ UNCHANGED << sessions, msgs, outbox, tasks, faults >>
     \/ AttachFail(c)

\* lines 331-342: findFirst of the visitor's latest non-closed session
AttachFindExisting(c) ==
  /\ conns[c].pc = "findExisting"
  /\ \/ /\ OpenSessionsOf(conns[c].visitor) # {}
        /\ Bind(c, Latest(OpenSessionsOf(conns[c].visitor)))
        /\ UNCHANGED sessions
     \/ /\ OpenSessionsOf(conns[c].visitor) = {}
        /\ conns' = [conns EXCEPT ![c].pc = "createSession"]
        /\ UNCHANGED << sessions, msgs, outbox, tasks, faults >>
     \/ AttachFail(c)

\* lines 345-353: create the session
AttachCreate(c) ==
  /\ conns[c].pc = "createSession"
  /\ \/ /\ \E s \in SessionIds : ~Exists(s)
        /\ sessions' = [sessions EXCEPT ![FreshId] =
                          [status |-> "ACTIVE", visitor |-> conns[c].visitor]]
        /\ Bind(c, FreshId)
     \/ AttachFail(c)

\* lines 116-124: the history is loaded and emitted when not empty
AttachHistory(c) ==
  /\ conns[c].pc = "loadHistory"
  /\ \/ /\ outbox' = IF getHistory(conns[c].session, HistoryLimit) # << >>
                     THEN EmitTo(outbox, c, Event("history", conns[c].session, 0,
                                                  getHistory(conns[c].session, HistoryLimit)))
                     ELSE outbox
        /\ conns' = [conns EXCEPT ![c].pc = "touch"]
        /\ UNCHANGED << sessions, msgs, tasks, faults >>
     \/ AttachFail(c)

\* lines 124-127: last_active_at and status ACTIVE
AttachTouch(c) ==
  /\ conns[c].pc = "touch"
  /\ \/ /\ sessions' = [sessions EXCEPT ![conns[c].session].status = "ACTIVE"]
        /\ conns' = [conns EXCEPT ![c] = [@ EXCEPT !.pc = "done", !.session = NoSid]]
        /\ UNCHANGED << msgs, outbox, tasks, faults >>
     \/ AttachFail(c)

(* --------------------------- message handler --------------------------- *)
\* an end-session event of connection c naming s has run to its end without an error
EndedOkBy(c, s) ==
  \E k \in Events : tasks[k].kind = "end" /\ tasks[k].pc = "done" /\ tasks[k].conn = c
                    /\ tasks[k].res = "ok" /\ tasks[k].sid = s

\* the record of a handler invocation; afterEnd notes that the event arrived after
\* its connection had ended the session it names
NewTask(c, kind, sid, content) ==
  [conn |-> c, kind |-> kind, pc |-> "none", sid |-> sid, content |-> content,
   res |-> "", hist |-> << >>, afterEnd |-> EndedOkBy(c, sid)]

\* the handler without the refusal of line 148-152: an event without a session id
\* is dropped in silence
RecvMessageSilent(c, p, content) ==
  /\ CanReceive(c)
  /\ LET sid == EffectiveSid(c, p)
         t == NewTask(c, "message", sid, TrimmedContent(content))
     IN IF sid = NoSid \/ TrimmedContent(content) = << >>
        THEN /\ tasks' = [tasks EXCEPT ![FreeEvent] =
                            [DoneTask(t, IF sid = NoSid THEN "unbound" ELSE "dropped")
                               EXCEPT !.content = t.content]]
             /\ UNCHANGED outbox
        ELSE /\ tasks' = [tasks EXCEPT ![FreeEvent] = [t EXCEPT !.pc = "findSession"]]
             /\ UNCHANGED outbox
  /\ UNCHANGED << sessions, msgs, conns, faults >>

\* lines 144-162: the synchronous head of the handler, up to findUnique; the record
\* of an event refused at line 148 keeps the trimmed content the event carried
RecvMessage(c, p, content) ==
  /\ CanReceive(c)
  /\ LET sid == EffectiveSid(c, p)
         t == NewTask(c, "message", sid, TrimmedContent(content))
     IN IF sid = NoSid
        THEN /\ outbox' = EmitTo(outbox, c, Event("error", NoSid, FreeEvent, "unbound"))
             /\ tasks' = [tasks EXCEPT ![FreeEvent] =
                            [DoneTask(t, "unbound") EXCEPT !.content = t.content]]
        ELSE IF TrimmedContent(content) = << >>
        THEN /\ tasks' = [tasks EXCEPT ![FreeEvent] = DoneTask(t, "dropped")]
             /\ UNCHANGED outbox
        ELSE /\ tasks' = [tasks EXCEPT ![FreeEvent] = [t EXCEPT !.pc = "findSession"]]
             /\ UNCHANGED outbox
  /\ UNCHANGED << sessions, msgs, conns, faults >>

\* lines 231-234: the catch of the message handler
MsgCatch(k, res) ==
  /\ Throws
  /\ outbox' = EmitTo(outbox, tasks[k].conn, Event("error", tasks[k].sid, k, "send"))
  /\ tasks' = [tasks EXCEPT ![k] = DoneTask(@, res)]
  /\ UNCHANGED << sessions, msgs, conns >>

\* lines 169-177: no such session
MsgExpired(k) ==
  /\ outbox' = EmitTo(EmitTo(outbox, tasks[k].conn,
                             Event("error", tasks[k].sid, k, "expired")),
                      tasks[k].conn,
                      Event("sessionClosed", tasks[k].sid, k, "notFound"))
  /\ tasks' = [tasks EXCEPT ![k] = DoneTask(@, "expired")]
  /\ UNCHANGED << sessions, msgs, conns, faults >>

\* lines 179-186: the session is CLOSED
MsgClosed(k) ==
  /\ outbox' = EmitTo(outbox, tasks[k].conn,
                      Event("sessionClosed", tasks[k].sid, k, "closed"))
  /\ tasks' = [tasks EXCEPT ![k] = DoneTask(@, "closed")]
  /\ UNCHANGED << sessions, msgs, conns, faults >>

\* lines 164-188: findUnique, then the checks on its result
MsgFindSession(k) ==
  /\ tasks[k].pc = "findSession"
  /\ \/ ~Exists(tasks[k].sid) /\ MsgExpired(k)
     \/ Exists(tasks[k].sid) /\ sessions[tasks[k].sid].status = "CLOSED" /\ MsgClosed(k)
     \/ /\ Exists(tasks[k].sid)
        /\ sessions[tasks[k].sid].status # "CLOSED"
        /\ tasks' = [tasks EXCEPT ![k].pc = "createUser"]
        /\ UNCHANGED << sessions, msgs, conns, outbox, faults >>
     \/ MsgCatch(k, "readFailed")

\* socket.emit in place of io.to(sessionId).emit
EmitMessageToSender(k, row) ==
  EmitTo(outbox, tasks[k].conn, Event("message", tasks[k].sid, k, mapMessage(row)))
\* lines 197 and 229: io.to(sessionId).emit('message', mapMessage(row))
EmitMessage(k, row) == Fanout(outbox, tasks[k].sid, Event("message", tasks[k].sid, k, mapMessage(row)))

\* lines 188-201: the USER message is created and echoed to the room
MsgCreateUser(k) ==
  /\ tasks[k].pc = "createUser"
  /\ \/ /\ msgs' = Append(msgs, NewMessage(tasks[k].sid, "USER", tasks[k].content, k))
        /\ outbox' = EmitMessage(k, NewMessage(tasks[k].sid, "USER", tasks[k].content, k))
        /\ tasks' = [tasks EXCEPT ![k].pc = "updateActivity"]
        /\ UNCHANGED << sessions, conns, faults >>
     \/ MsgCatch(k, "userFailed")

\* lines 201-208: last_active_at and status ACTIVE
MsgUpdateActivity(k) ==
  /\ tasks[k].pc = "updateActivity"
  /\ \/ /\ sessions' = [sessions EXCEPT ![tasks[k].sid].status = "ACTIVE"]
        /\ tasks' = [tasks EXCEPT ![k].pc = "getHistory"]
        /\ UNCHANGED << msgs, conns, outbox, faults >>
     \/ MsgCatch(k, "failed")

\* lines 208-218: the history for the oracle is loaded and sendToN8n is called
MsgGetHistory(k) ==
  /\ tasks[k].pc = "getHistory"
  /\ \/ /\ tasks' = [tasks EXCEPT ![k] =
                       [@ EXCEPT !.pc = "oracle", !.hist = getHistory(tasks[k].sid, BrainLimit)]]
        /\ UNCHANGED << sessions, msgs, conns, outbox, faults >>
     \/ MsgCatch(k, "failed")

\* lines 209-221: sendToN8n answers or throws
MsgOracle(k) ==
  /\ tasks[k].pc = "oracle"
  /\ \/ /\ tasks' = [tasks EXCEPT ![k] = [@ EXCEPT !.pc = "createBot", !.hist = << >>]]
        /\ UNCHANGED << sessions, msgs, conns, outbox, faults >>
     \/ MsgCatch(k, "oracleFailed")

\* the reply of the oracle
AiReply == << "r" >>

\* the reply saved with role USER in place of BOT
MsgCreateBotAsUser(k) ==
  /\ tasks[k].pc = "createBot"
  /\ \/ /\ msgs' = Append(msgs, NewMessage(tasks[k].sid, "USER", AiReply, k))
        /\ outbox' = EmitMessage(k, NewMessage(tasks[k].sid, "USER", AiReply, k))
        /\ tasks' = [tasks EXCEPT ![k] = DoneTask(@, "ok")]
        /\ UNCHANGED << sessions, conns, faults >>
     \/ MsgCatch(k, "botFailed")

\* lines 221-230: the BOT message is created and sent to the room
MsgCreateBot(k) ==
  /\ tasks[k].pc = "createBot"
  /\ \/ /\ msgs' = Append(msgs, NewMessage(tasks[k].sid, "BOT", AiReply, k))
        /\ outbox' = EmitMessage(k, NewMessage(tasks[k].sid, "BOT", AiReply, k))
        /\ tasks' = [tasks EXCEPT ![k] = DoneTask(@, "ok")]
        /\ UNCHANGED << sessions, conns, faults >>
     \/ MsgCatch(k, "botFailed")

(* ------------------------------ heartbeat ------------------------------ *)
\* lines 237-242
RecvHeartbeat(c, p) ==
  /\ CanReceive(c)
  /\ LET sid == EffectiveSid(c, p)
         t == NewTask(c, "heartbeat", sid, << >>)
     IN tasks' = [tasks EXCEPT ![FreeEvent] =
                    IF sid = NoSid THEN DoneTask(t, "noop") ELSE [t EXCEPT !.pc = "hbUpdate"]]
  /\ UNCHANGED << sessions, msgs, conns, outbox, faults >>

\* lines 242-248: update where id; a missing row or a repository error is swallowed
HbUpdate(k) ==
  /\ tasks[k].pc = "hbUpdate"
  /\ \/ /\ Exists(tasks[k].sid)
        /\ sessions' = [sessions EXCEPT ![tasks[k].sid].status = "ACTIVE"]
        /\ tasks' = [tasks EXCEPT ![k] = DoneTask(@, "ok")]
        /\ UNCHANGED faults
     \/ /\ ~Exists(tasks[k].sid)
        /\ tasks' = [tasks EXCEPT ![k] = DoneTask(@, "failed")]
        /\ UNCHANGED << sessions, faults >>
     \/ /\ Throws
        /\ tasks' = [tasks EXCEPT ![k] = DoneTask(@, "failed")]
        /\ UNCHANGED sessions
  /\ UNCHANGED << msgs, conns, outbox >>

(* ----------------------------- end session ----------------------------- *)
\* lines 263-278: the synchronous head of handleEndSession
handleEndSession(c, p) ==
  /\ CanReceive(c)
  /\ LET sid == EffectiveSid(c, p)
         t == NewTask(c, "end", sid, << >>)
     IN tasks' = [tasks EXCEPT ![FreeEvent] =
                    IF sid = NoSid THEN DoneTask(t, "noop") ELSE [t EXCEPT !.pc = "endUpdate"]]
  /\ UNCHANGED << sessions, msgs, conns, outbox, faults >>

\* lines 252-254
RecvEndSession(c, p) == handleEndSession(c, p)
\* lines 257-259
RecvEndChat(c, p) == handleEndSession(c, p)

\* lines 307-310: the catch of handleEndSession
EndCatch(k) ==
  /\ outbox' = EmitTo(outbox, tasks[k].conn, Event("error", tasks[k].sid, k, "end"))
  /\ tasks' = [tasks EXCEPT ![k] = DoneTask(@, "failed")]
  /\ UNCHANGED << sessions, msgs, conns >>

\* lines 278-287: status CLOSED; update throws when the row is missing
EndUpdate(k) ==
  /\ tasks[k].pc = "endUpdate"
  /\ \/ /\ Exists(tasks[k].sid)
        /\ sessions' = [sessions EXCEPT ![tasks[k].sid].status = "CLOSED"]
        /\ tasks' = [tasks EXCEPT ![k].pc = "endCreate"]
        /\ UNCHANGED << msgs, conns, outbox, faults >>
     \/ ~Exists(tasks[k].sid) /\ EndCatch(k) /\ UNCHANGED faults
     \/ Throws /\ EndCatch(k)

\* the end of handleEndSession without line 303: the socket stays bound
EndCreateKeepBound(k) ==
  /\ tasks[k].pc = "endCreate"
  /\ \/ /\ msgs' = Append(msgs, NewMessage(tasks[k].sid, "SYSTEM", << "e" >>, k))
        /\ outbox' = EmitTo(outbox, tasks[k].conn,
                            Event("sessionClosed", tasks[k].sid, k, "ended"))
        /\ conns' = [conns EXCEPT ![tasks[k].conn] =
                       [@ EXCEPT !.rooms = @ \ {tasks[k].sid}]]
        /\ tasks' = [tasks EXCEPT ![k] = DoneTask(@, "ok")]
        /\ UNCHANGED << sessions, faults >>
     \/ Throws /\ EndCatch(k)

\* lines 287-305: the SYSTEM message, then notify, leave the room and unbind
EndCreate(k) ==
  /\ tasks[k].pc = "endCreate"
  /\ \/ /\ msgs' = Append(msgs, NewMessage(tasks[k].sid, "SYSTEM", << "e" >>, k))
        /\ outbox' = EmitTo(outbox, tasks[k].conn,
                            Event("sessionClosed", tasks[k].sid, k, "ended"))
        /\ conns' = [conns EXCEPT ![tasks[k].conn] =
                       [@ EXCEPT !.rooms = @ \ {tasks[k].sid}, !.sid = NoSid]]
        /\ tasks' = [tasks EXCEPT ![k] = DoneTask(@, "ok")]
        /\ UNCHANGED << sessions, faults >>
     \/ Throws /\ EndCatch(k)

(* ---------------------------- specification ---------------------------- *)
\* what a handshake can ask for and a payload can carry as sessionId: nothing, the
\* id of some session, or an id of none
RequestSids == {NoSid, BogusSid} \cup { s \in SessionIds : Exists(s) }
PayloadSids == RequestSids
Contents == { NoContent, << " " >>, << " ", "h", " " >> }

Next ==
  \/ \E c \in Conns, v \in Visitors \cup {NoVisitor}, r \in RequestSids : Connect(c, v, r)
  \/ \E c \in Conns : AttachFindRequested(c)
  \/ \E c \in Conns : AttachFindExisting(c)
  \/ \E c \in Conns : AttachCreate(c)
  \/ \E c \in Conns : AttachHistory(c)
  \/ \E c \in Conns : AttachTouch(c)
  \/ \E c \in Conns, p \in PayloadSids, content \in Contents : RecvMessage(c, p, content)
  \/ \E c \in Conns, p \in PayloadSids : RecvHeartbeat(c, p)
  \/ \E c \in Conns, p \in PayloadSids : RecvEndSession(c, p)
  \/ \E c \in Conns, p \in PayloadSids : RecvEndChat(c, p)
  \/ \E k \in Events : MsgFindSession(k)
  \/ \E k \in Events : MsgCreateUser(k)
  \/ \E k \in Events : MsgUpdateActivity(k)
  \/ \E k \in Events : MsgGetHistory(k)
  \/ \E k \in Events : MsgOracle(k)
  \/ \E k \in Events : MsgCreateBot(k)
  \/ \E k \in Events : HbUpdate(k)
  \/ \E k \in Events : EndUpdate(k)
  \/ \E k \in Events : EndCreate(k)

Spec == Init /\ [][Next]_vars

(* ------------- sequential attaches without an end-session -------------- *)
\* The process starts on a store that may hold an earlier, closed session of the
\* visitor (turn 0 marks rows written before the run).  Attaches follow one another,
\* each asking for nothing or for an id an earlier attach of the run gave its
\* visitor; messages and heartbeats arrive freely; no end-session event arrives.
FirstVisitor == CHOOSE v \in Visitors : TRUE
ClosedEarlier == [EmptyStore EXCEPT ![1] = [status |-> "CLOSED", visitor |-> FirstVisitor]]
ClosureRow == [id |-> 1, sid |-> 1, role |-> "SYSTEM", content |-> << "e" >>, turn |-> 0]

InitSeq ==
  /\ sessions \in {EmptyStore, ClosedEarlier}
  /\ msgs = IF sessions = EmptyStore THEN << >> ELSE << ClosureRow >>
  /\ NoSockets

\* the session ids the `session` events gave the client of c
Announced(c) ==
  { outbox[c][i].sid : i \in { j \in 1..Len(outbox[c]) : outbox[c][j].type = "session" } }
\* the ids the run's earlier attaches gave visitor v (a handshake without a visitorId
\* gets a fresh identity, which was given none)
GivenTo(v) ==
  UNION { Announced(c) : c \in { d \in Conns : v # NoVisitor /\ conns[d].visitor = v } }

NextSeq ==
  \/ \E c \in Conns, v \in Visitors \cup {NoVisitor} : \E r \in {NoSid} \cup GivenTo(v) :
        Attaching = {} /\ Connect(c, v, r)
  \/ \E c \in Conns : AttachFindRequested(c)
  \/ \E c \in Conns : AttachFindExisting(c)
  \/ \E c \in Conns : AttachCreate(c)
  \/ \E c \in Conns : AttachHistory(c)
  \/ \E c \in Conns : AttachTouch(c)
  \/ \E c \in Conns, p \in PayloadSids, content \in Contents : RecvMessage(c, p, content)
  \/ \E c \in Conns, p \in PayloadSids : RecvHeartbeat(c, p)
  \/ \E k \in Events : MsgFindSession(k)
  \/ \E k \in Events : MsgCreateUser(k)
  \/ \E k \in Events : MsgUpdateActivity(k)
  \/ \E k \in Events : MsgGetHistory(k)
  \/ \E k \in Events : MsgOracle(k)
  \/ \E k \in Events : MsgCreateBot(k)
  \/ \E k \in Events : HbUpdate(k)

SpecSeq == InitSeq /\ [][NextSeq]_vars

(* ------------------ turns and attaches on a long session ---------------- *)
\* The process starts on a store that holds one open session of the visitor with a
\* number of earlier rows; the visitor attaches and sends messages, one after the
\* other.
PriorRow(i) ==
  [id |-> i, sid |-> 1, role |-> IF i % 2 = 1 THEN "USER" ELSE "BOT",
   content |-> << "p" >>, turn |-> 0]
PriorLog(n) == [i \in 1..n |-> PriorRow(i)]
LogSizes == {0, BrainLimit - 1, BrainLimit, HistoryLimit - 1, HistoryLimit}
OpenEarlier == [EmptyStore EXCEPT ![1] = [status |-> "ACTIVE", visitor |-> FirstVisitor]]

InitHist ==
  /\ sessions = OpenEarlier
  /\ \E n \in LogSizes : msgs = PriorLog(n)
  /\ NoSockets

NextHist ==
  \/ \E c \in Conns : InFlight = 0 /\ Connect(c, FirstVisitor, NoSid)
  \/ \E c \in Conns : AttachFindExisting(c)
  \/ \E c \in Conns : AttachHistory(c)
  \/ \E c \in Conns : AttachTouch(c)
  \/ \E c \in Conns : InFlight = 0 /\ RecvMessage(c, NoSid, << "h" >>)
  \/ \E k \in Events : MsgFindSession(k)
  \/ \E k \in Events : MsgCreateUser(k)
  \/ \E k \in Events : MsgUpdateActivity(k)
  \/ \E k \in Events : MsgGetHistory(k)
  \/ \E k \in Events : MsgOracle(k)
  \/ \E k \in Events : MsgCreateBot(k)

SpecHist == InitHist /\ [][NextHist]_vars

(* ------------------------------- claims -------------------------------- *)
MessageTasks == { k \in Events : tasks[k].kind = "message" }
Rows(k, role) == { i \in 1..Len(msgs) : msgs[i].turn = k /\ msgs[i].role = role }
Added == { i \in 1..Len(msgs') : i > Len(msgs) }
\* the events of one type that handler k emitted to connection c
Sent(c, k, type) ==
  { i \in 1..Len(outbox[c]) : outbox[c][i].by = k /\ outbox[c][i].type = type }
\* the `message` events of handler k for a row of the given role, in c's outbox
Delivered(c, k, role) ==
  { i \in Sent(c, k, "message") : outbox[c][i].info.sender = role }
Owners == { sessions[s].visitor : s \in { t \in SessionIds : Exists(t) } }

\* C1: a session whose durable status is CLOSED never has another status again.
ClosedIsFinal ==
  [][\A s \in SessionIds :
       sessions[s].status = "CLOSED" => sessions'[s].status = "CLOSED"]_vars

\* C2: every visitor owns at most one session that is not CLOSED.
OneOpenSessionPerVisitor ==
  \A v \in Owners : Cardinality(OpenSessionsOf(v)) <= 1

\* C3: every USER or BOT row is written while its session is not CLOSED.
NoWriteUnderClosed ==
  [][\A i \in Added :
       msgs'[i].role \in {"USER", "BOT"} => sessions[msgs'[i].sid].status # "CLOSED"]_vars

\* C4: an attach that starts after an end-session event for the session it asks
\* for has completed is bound to another session.
EndedNeverRebound ==
  [][\A c \in Conns :
       (conns[c].reqEnded /\ conns[c].pc # "loadHistory" /\ conns'[c].pc = "loadHistory")
         => conns'[c].sid # conns[c].requested]_vars

\* C6: the handler of an event takes no step while the handler of an earlier event
\* of the same connection is still running.
EventsSerialPerConn ==
  [][\A k \in Running, j \in Running :
       (j < k /\ tasks[j].conn = tasks[k].conn) => tasks'[k] = tasks[k]]_vars

\* C7: when a USER or BOT row is persisted under session S, the `message` event of
\* that row is the next event of every connected attachment bound to S, the sender
\* included.
FanoutComplete ==
  [][\A i \in Added : \A c \in Conns :
       (msgs'[i].role \in {"USER", "BOT"} /\ conns[c].connected /\ conns[c].sid = msgs'[i].sid)
         => outbox'[c] = Append(outbox[c],
                                Event("message", msgs'[i].sid, msgs'[i].turn, mapMessage(msgs'[i])))]_vars

\* C7 witness: two attachments bound to one session have both received the USER and
\* the BOT message of a turn one of them sent.
FanoutWitness ==
  \E c \in Conns, d \in Conns, k \in MessageTasks :
    /\ c # d
    /\ tasks[k].conn = c
    /\ conns[c].sid = tasks[k].sid /\ conns[d].sid = tasks[k].sid
    /\ \A e \in {c, d} : Delivered(e, k, "USER") # {} /\ Delivered(e, k, "BOT") # {}

\* the turn of handler k got past the check of its session (lines 169-186)
Accepted(k) ==
  \/ tasks[k].pc \in {"createUser", "updateActivity", "getHistory", "oracle", "createBot"}
  \/ tasks[k].pc = "done" /\ tasks[k].res \in {"userFailed", "failed", "oracleFailed", "botFailed", "ok"}
\* the oracle of the turn of handler k has answered
Answered(k) ==
  \/ tasks[k].pc = "createBot"
  \/ tasks[k].pc = "done" /\ tasks[k].res \in {"botFailed", "ok"}

\* the order of a turn: the BOT row and its `message` event come after the USER ones
TurnOrder(k) ==
  /\ Rows(k, "BOT") # {} => Rows(k, "USER") # {}
  /\ \A i \in Rows(k, "USER"), j \in Rows(k, "BOT") : i < j
  /\ \A c \in Conns : \A i \in Delivered(c, k, "USER"), j \in Delivered(c, k, "BOT") : i < j

RejectedMessages ==
  \A k \in MessageTasks :
    /\ (tasks[k].pc = "done" /\ tasks[k].res = "expired" /\ conns[tasks[k].conn].connected)
         => /\ Cardinality(Sent(tasks[k].conn, k, "error")) = 1
            /\ Cardinality(Sent(tasks[k].conn, k, "sessionClosed")) = 1
    /\ (tasks[k].pc = "done" /\ tasks[k].res = "closed" /\ conns[tasks[k].conn].connected)
         => /\ Sent(tasks[k].conn, k, "error") = {}
            /\ Cardinality(Sent(tasks[k].conn, k, "sessionClosed")) = 1
    /\ (tasks[k].pc = "done" /\ tasks[k].res \in {"expired", "closed"})
         => Rows(k, "USER") \cup Rows(k, "BOT") = {}
    /\ tasks[k].afterEnd => Rows(k, "USER") = {}

\* the sessions of visitor v that the store held before the run, and those created in it
EarlierOf(v) ==
  { s \in SessionIds : Exists(s) /\ sessions[s].visitor = v
                       /\ \E i \in 1..Len(msgs) : msgs[i].sid = s /\ msgs[i].turn = 0 }
CreatedFor(v) ==
  { s \in SessionIds : Exists(s) /\ sessions[s].visitor = v } \ EarlierOf(v)

NewHistory(c) ==
  { j \in 1..Len(outbox'[c]) : j > Len(outbox[c]) /\ outbox'[c][j].type = "history" }
\* a finished turn whose oracle call failed
OracleFailed(k) == tasks[k].pc = "done" /\ tasks[k].res = "oracleFailed"

\* C9: after a failed oracle call the USER row of the turn is kept and there is no
\* BOT row, the sender got one `error` event and nobody else got one, and the next
\* history load of the session holds the USER row.
OracleFailureKeepsUser ==
  /\ [](\A k \in MessageTasks :
          OracleFailed(k) =>
            /\ Cardinality(Rows(k, "USER")) = 1
            /\ Rows(k, "BOT") = {}
            /\ conns[tasks[k].conn].connected => Cardinality(Sent(tasks[k].conn, k, "error")) = 1
            /\ \A c \in Conns \ {tasks[k].conn} : Sent(c, k, "error") = {})
  /\ [][\A c \in Conns :
          (conns[c].pc = "loadHistory" /\ conns'[c].pc = "touch") =>
            \A k \in MessageTasks :
              (OracleFailed(k) /\ tasks[k].sid = conns[c].session) =>
                \A i \in Rows(k, "USER") :
                  \E j \in NewHistory(c) :
                    \E m \in 1..Len(outbox'[c][j].info) : outbox'[c][j].info[m].id = msgs[i].id]_vars

\* the event whose handler starts in this step
Arrives(k, kind) == tasks[k].pc = "none" /\ tasks'[k].kind = kind

\* C11: a message event whose content is absent or trims to empty persists nothing
\* and emits nothing to anybody, whatever the binding of its connection and whatever
\* session id it carries.
EmptyIsSilent ==
  [][\A k \in Events :
       (Arrives(k, "message") /\ tasks'[k].pc = "done" /\ tasks'[k].content = << >>)
         => outbox' = outbox /\ msgs' = msgs]_vars

\* C12: a message event without a session id on a connection without a bound session
\* id gives its sender one `error` event and nobody else anything, persists nothing,
\* calls neither the repository nor the oracle (the handler ends in the step it
\* starts in) and leaves the connections and the sessions as they were.
UnboundMessageRefused ==
  [][\A k \in Events :
       (Arrives(k, "message") /\ tasks'[k].sid = NoSid)
         => /\ outbox' = [outbox EXCEPT ![tasks'[k].conn] =
                            Append(@, Event("error", NoSid, k, "unbound"))]
            /\ tasks'[k].pc = "done"
            /\ msgs' = msgs /\ sessions' = sessions /\ conns' = conns /\ faults' = faults]_vars

\* C12 witness: a connection that ended its session sent a message without a session
\* id and got the one `error` event.
UnboundWitness ==
  \E k \in MessageTasks, j \in Events :
    /\ tasks[j].kind = "end" /\ tasks[j].pc = "done" /\ tasks[j].res = "ok"
    /\ tasks[j].conn = tasks[k].conn
    /\ tasks[k].pc = "done" /\ tasks[k].res = "unbound" /\ tasks[k].content # << >>
    /\ conns[tasks[k].conn].sid = NoSid
    /\ Cardinality(Sent(tasks[k].conn, k, "error")) = 1


\* the `session` and the `history` events in the outbox of c
SessionEvents(c) == { i \in 1..Len(outbox[c]) : outbox[c][i].type = "session" }
HistoryEvents(c) == { i \in 1..Len(outbox[c]) : outbox[c][i].type = "history" }

\* C13: an attached connection got exactly one `session` event and at most one
\* `history` event, and the `history` event is the very next event after `session`.
SessionThenHistory ==
  \A c \in Conns :
    /\ Cardinality(SessionEvents(c)) <= 1
    /\ Cardinality(HistoryEvents(c)) <= 1
    /\ conns[c].pc \in {"loadHistory", "touch", "done"} => Cardinality(SessionEvents(c)) = 1
    /\ \A i \in HistoryEvents(c) : i - 1 \in SessionEvents(c)

EndTasks == { k \in Events : tasks[k].kind = "end" }
\* the end-session event of handler k ran to its end without an error
EndedOkTask(k) == tasks[k].pc = "done" /\ tasks[k].res = "ok"
EndFailedTask(k) == tasks[k].pc = "done" /\ tasks[k].res = "failed"

\* C14: an end-session event (endSession or end_chat) with effective session S sets
\* the status of S to CLOSED with its update and, when it succeeds, persists one
\* SYSTEM row under S, emits one `sessionClosed` to the requesting connection only,
\* clears that connection's bound session id and leaves it connected; an end-session
\* event without an effective session id changes nothing.
EndSessionEffects ==
  /\ [](\A k \in EndTasks :
          EndedOkTask(k) =>
            /\ Cardinality(Rows(k, "SYSTEM")) = 1
            /\ \A i \in Rows(k, "SYSTEM") : msgs[i].sid = tasks[k].sid
            /\ \A c \in Conns \ {tasks[k].conn} : Sent(c, k, "sessionClosed") = {})
  /\ [][\A k \in Events :
          /\ (tasks[k].pc = "endUpdate" /\ tasks'[k].pc = "endCreate")
               => sessions'[tasks[k].sid].status = "CLOSED"
          /\ (tasks[k].pc = "endCreate" /\ EndedOkTask(k)')
               => LET c == tasks[k].conn
                  IN /\ msgs' = Append(msgs, NewMessage(tasks[k].sid, "SYSTEM", << "e" >>, k))
                     /\ conns[c].connected
                          => outbox' = [outbox EXCEPT ![c] =
                               Append(@, Event("sessionClosed", tasks[k].sid, k, "ended"))]
                     /\ ~conns[c].connected => outbox' = outbox
                     /\ conns'[c].sid = NoSid
                     /\ conns'[c].connected = conns[c].connected
                     /\ \A d \in Conns \ {c} : conns'[d] = conns[d]
          /\ (Arrives(k, "end") /\ tasks'[k].sid = NoSid)
               => /\ tasks'[k].pc = "done"
                  /\ UNCHANGED << sessions, msgs, conns, outbox, faults >>]_vars

\* C14 witness: a connection ended the session it was bound to: the session is
\* CLOSED and has its SYSTEM row, the connection got `sessionClosed`, is unbound and
\* still connected; and an end-session event after that, without a session id, did
\* nothing.
EndWitness ==
  \E k \in EndTasks, j \in EndTasks :
    /\ EndedOkTask(k)
    /\ tasks[j].conn = tasks[k].conn /\ tasks[j].pc = "done" /\ tasks[j].res = "noop"
    /\ sessions[tasks[k].sid].status = "CLOSED"
    /\ Rows(k, "SYSTEM") # {}
    /\ Cardinality(Sent(tasks[k].conn, k, "sessionClosed")) = 1
    /\ conns[tasks[k].conn].sid = NoSid
    /\ conns[tasks[k].conn].connected

\* C15: when a repository write of an end-session event fails, the caller gets one
\* `error` and no `sessionClosed`, the connection stays as it was (bound, in its
\* rooms, connected) and the session is not left CLOSED by the event.
EndFailureLeavesOpen ==
  /\ [](\A k \in EndTasks :
          EndFailedTask(k) =>
            /\ conns[tasks[k].conn].connected
                 => /\ Cardinality(Sent(tasks[k].conn, k, "error")) = 1
                    /\ Sent(tasks[k].conn, k, "sessionClosed") = {}
            /\ (/\ Exists(tasks[k].sid)
                /\ \A j \in EndTasks \ {k} : tasks[j].sid # tasks[k].sid)
                 => sessions[tasks[k].sid].status # "CLOSED")
  /\ [][\A k \in Events : (tasks[k].kind = "end" /\ EndFailedTask(k)') => conns' = conns]_vars

\* C16: a repository failure during attach emits `error` and disconnects the socket,
\* after which no handler of an event of the connection takes a step and no event of
\* it arrives; a failure inside ensureSession creates no session, emits no `session`
\* event and registers no handler.
AttachFailureIsTerminal ==
  /\ [](\A c \in Conns :
          (conns[c].pc = "failed" /\ ~conns[c].registered) => SessionEvents(c) = {})
  /\ [][\A c \in Conns :
          /\ (conns[c].pc # "failed" /\ conns'[c].pc = "failed")
               => /\ outbox'[c] = Append(outbox[c], Event("error", NoSid, 0, "attach"))
                  /\ ~conns'[c].connected
                  /\ conns[c].pc \in {"findRequested", "findExisting", "createSession"}
                       => sessions' = sessions /\ ~conns'[c].registered
          /\ conns[c].pc = "failed"
               => \A k \in Events :
                    (tasks[k].conn = c \/ tasks'[k].conn = c) => tasks'[k] = tasks[k]]_vars

\* C17: while no handler of a connected attachment is in flight, the attachment is in
\* the room of S exactly when its bound session id is S; an unbound attachment is in
\* no room.
RoomsMatchBinding ==
  \A c \in Conns :
    (/\ conns[c].connected
     /\ c \notin Attaching
     /\ \A k \in Running : tasks[k].conn # c)
      => conns[c].rooms = IF conns[c].sid = NoSid THEN {} ELSE {conns[c].sid}

\* C18: the session a `session` event announces is owned by the visitor the event
\* announces.
AttachRespectsOwner ==
  \A c \in Conns : \A i \in SessionEvents(c) :
    sessions[outbox[c][i].sid].visitor = outbox[c][i].info

\* the SYSTEM rows under session s
ClosureRows(s) == { i \in 1..Len(msgs) : msgs[i].sid = s /\ msgs[i].role = "SYSTEM" }

\* C19: a session has no SYSTEM row before an end-session event closed it and one
\* SYSTEM row, never more, once an end-session event for it has succeeded.
OneClosureRow ==
  \A s \in SessionIds :
    /\ Cardinality(ClosureRows(s)) <= 1
    /\ EndedOk(s) => Cardinality(ClosureRows(s)) = 1
    /\ ClosureRows(s) # {} => \E k \in EndTasks : tasks[k].sid = s

\* the last n elements of a sequence
Last(s, n) == SubSeq(s, IF Len(s) > n THEN Len(s) - n + 1 ELSE 1, Len(s))

\* C20: the history loaded for the oracle is the most recent BrainLimit messages of
\* the session, in creation order, and holds the USER row of the turn.
OracleHistoryIsRecent ==
  [][\A k \in Events :
       (tasks[k].pc = "getHistory" /\ tasks'[k].pc = "oracle")
         => /\ tasks'[k].hist = Last(MapMessages(SelectSession(msgs, tasks[k].sid)), BrainLimit)
            /\ \A i \in Rows(k, "USER") :
                 \E m \in 1..Len(tasks'[k].hist) : tasks'[k].hist[m].id = msgs[i].id]_vars


====
